---- MODULE Spec2Model ----
(***************************************************************************)
(* Model of notebooks/epipolar_distributions.ipynb of the cars project:    *)
(* the derivation of the epipolar-error and disparity signals from the     *)
(* matches, the percentile envelope shared by raw and corrected matches,   *)
(* the mean / standard deviation of the residual epipolar error, and the   *)
(* 2D binned statistics (scipy.stats.binned_statistic_2d).                 *)
(*                                                                         *)
(* Numbers are exact: a percentile is carried multiplied by 100, a mean as *)
(* the pair (sum, count), a variance as the pair (numerator, count^3).     *)
(* Only the section on summation order carries float64 rounding.           *)
(***************************************************************************)
EXTENDS Integers, Sequences, FiniteSets, TLC

VARIABLES pc, matches, raw_matches,
          epipolar_error, raw_epipolar_error, disparity, raw_disparity,
          lower_pct, upper_pct, est, outcome,
          bounds, bins, grids, nb

vars == <<pc, matches, raw_matches,
          epipolar_error, raw_epipolar_error, disparity, raw_disparity,
          lower_pct, upper_pct, est, outcome, bounds, bins, grids, nb>>

\* Bounds of the model.
MaxN == 3
MaxPts == 4
MaxBins == 3

\* The value of a variable a cell has not assigned yet.
None == [none |-> TRUE]

(***************************************************************************)
(* numpy helpers                                                           *)
(***************************************************************************)
RECURSIVE Sum(_)
Sum(s) == IF s = <<>> THEN 0 ELSE Head(s) + Sum(Tail(s))

RECURSIVE SeqMin(_)
SeqMin(s) == IF Len(s) = 1 THEN s[1]
             ELSE LET m == SeqMin(Tail(s)) IN IF s[1] < m THEN s[1] ELSE m

RECURSIVE SeqMax(_)
SeqMax(s) == IF Len(s) = 1 THEN s[1]
             ELSE LET m == SeqMax(Tail(s)) IN IF s[1] > m THEN s[1] ELSE m

Min2(a, b) == IF a < b THEN a ELSE b
Max2(a, b) == IF a > b THEN a ELSE b

\* All sequences over S of length lo..hi.
SeqsOf(S, lo, hi) == UNION {[1..n -> S] : n \in lo..hi}

\* floor(sqrt(n)) for n >= 0, by bisection on [lo, hi).
RECURSIVE IsqrtIn(_, _, _)
IsqrtIn(n, lo, hi) == IF hi - lo <= 1 THEN lo
                      ELSE LET mid == (lo + hi) \div 2
                           IN  IF mid * mid <= n THEN IsqrtIn(n, mid, hi)
                               ELSE IsqrtIn(n, lo, mid)
Isqrt(n) == IsqrtIn(n, 0, 46340)

\* Faulty variant of Sorted: the order statistics are read from the unsorted signal.
SortedUnsorted(a) == a
\* np.percentile orders the values (a partition around the wanted indexes).
Sorted(a) == SortSeq(a, LAMBDA u, v : u < v)

\* np.percentile(a, q), linear interpolation, for a non-empty a and an integer
\* q in 0..100, times 100: the virtual index is q/100 * (n-1); the result is
\* s[lo] + (s[hi] - s[lo]) * frac on the ordered values s (0-based lo, hi).
Percentile100(a, q) ==
    LET s    == Sorted(a)
        n    == Len(a)
        lo   == (q * (n - 1)) \div 100
        frac == (q * (n - 1)) % 100
        hi   == IF lo + 1 > n - 1 THEN n - 1 ELSE lo + 1
    IN  100 * s[lo + 1] + (s[hi + 1] - s[lo + 1]) * frac

\* a.mean(): sum / count, kept as the pair.
Mean(a) == [sum |-> Sum(a), count |-> Len(a)]

\* The mean rounded half up to 1/100.
Mean100(a) == (200 * Sum(a) + Len(a)) \div (2 * Len(a))

\* a.std() (ddof = 0): sqrt(mean(abs(a - a.mean())**2)). The variance is
\* VarNum(a) / Len(a)^3 with VarNum(a) = sum (n*a[i] - sum(a))^2.
VarNum(a) == LET n == Len(a)
                 S == Sum(a)
             IN  Sum([i \in 1..n |-> (n * a[i] - S) * (n * a[i] - S)])

\* The standard deviation rounded to the nearest 1/100.
Std100(a) ==
    LET n  == Len(a)
        A  == 10000 * VarNum(a)
        d  == n * n * n
        Y  == A \div d
        t  == Isqrt(Y)
        up == \/ Y > t * t + t
              \/ Y = t * t + t /\ 4 * (A % d) >= d
    IN  IF up THEN t + 1 ELSE t

(***************************************************************************)
(* Inputs                                                                  *)
(***************************************************************************)
\* A match is (x_left, y_left, x_right, y_right): columns 0..3 of the array.
Scenario == << <<0, 0, 1, 0>>, <<0, 10, 1, 9>>, <<0, 100, 1, 0>> >>

MatchPool == {Scenario[1], Scenario[2], Scenario[3], <<2, 5, 0, 3>>, <<1, 50, 4, 0>>}

\* The notebook asks for the 1st and the 99th percentile.
LowerPct == 1
UpperPct == 99

Pcts == {-1, 0, LowerPct, 50, UpperPct, 100, 101}

NaN == [nan |-> TRUE]
Num(v) == [nan |-> FALSE, v |-> v]

(***************************************************************************)
(* Cell "From matches we can compute the epipolar error and disparity"     *)
(***************************************************************************)
\* Faulty variant of EpipolarError: the columns subtracted the other way round.
EpipolarErrorSwapped(m) == [i \in 1..Len(m) |-> m[i][4] - m[i][2]]
\* matches[:,1] - matches[:,3]
EpipolarError(m) == [i \in 1..Len(m) |-> m[i][2] - m[i][4]]

\* matches[:,2] - matches[:,0]
Disparity(m) == [i \in 1..Len(m) |-> m[i][3] - m[i][1]]

ComputeSignals ==
    /\ pc = "loaded"
    /\ epipolar_error' = EpipolarError(matches)
    /\ raw_epipolar_error' = EpipolarError(raw_matches)
    /\ disparity' = Disparity(matches)
    /\ raw_disparity' = Disparity(raw_matches)
    /\ pc' = "signals"
    /\ UNCHANGED <<matches, raw_matches, lower_pct, upper_pct, est, outcome,
                   bounds, bins, grids, nb>>

(***************************************************************************)
(* The range estimate of one signal: np.percentile twice, mean(), std()    *)
(***************************************************************************)
\* np.percentile raises ValueError("Percentiles must be in the range [0, 100]")
\* before it reads the data.
PctInRange(q) == 0 <= q /\ q <= 100

RangeEstimate(a, lo, hi) ==
    [min100   |-> Percentile100(a, lo),
     max100   |-> Percentile100(a, hi),
     mean     |-> Mean(a),
     mean100  |-> Mean100(a),
     stdev100 |-> Std100(a)]

\* Every field of the estimate of an empty signal is nan.
NanEstimate == [min100 |-> NaN, max100 |-> NaN, mean |-> NaN, mean100 |-> NaN,
                stdev100 |-> NaN]

\* What the percentile of an empty array does depends on the numpy release:
\* nan (with a warning) up to 1.21, IndexError from 1.22 on.
EmptyOutcomes == {"nan", "IndexError"}

Estimate ==
    /\ pc = "signals"
    /\ pc' = "estimated"
    /\ IF ~PctInRange(lower_pct) \/ ~PctInRange(upper_pct)
       THEN /\ outcome' = "ValueError"
            /\ est' = None
       ELSE IF epipolar_error = <<>>
       THEN \E o \in EmptyOutcomes :
               /\ outcome' = o
               /\ est' = IF o = "nan"
                         THEN [epipolar_error |-> NanEstimate, disparity |-> NanEstimate]
                         ELSE None
       ELSE /\ outcome' = "ok"
            /\ est' = [epipolar_error |->
                          RangeEstimate(epipolar_error, lower_pct, upper_pct),
                       disparity |->
                          RangeEstimate(disparity, lower_pct, upper_pct)]
    /\ UNCHANGED <<matches, raw_matches, epipolar_error, raw_epipolar_error,
                   disparity, raw_disparity, lower_pct, upper_pct,
                   bounds, bins, grids, nb>>

InitEstimate ==
    /\ pc = "loaded"
    /\ matches \in SeqsOf(MatchPool, 0, MaxN)
    /\ raw_matches = <<>>
    /\ lower_pct \in Pcts
    /\ upper_pct \in Pcts
    /\ epipolar_error = None /\ raw_epipolar_error = None
    /\ disparity = None /\ raw_disparity = None
    /\ est = None /\ outcome = None
    /\ bounds = None /\ bins = None /\ grids = None /\ nb = None

NextEstimate == ComputeSignals \/ Estimate

SpecEstimate == InitEstimate /\ [][NextEstimate]_vars

(***************************************************************************)
(* Properties of the range estimate (SpecEstimate)                         *)
(***************************************************************************)
SignalNames == {"epipolar_error", "disparity"}

Estimated == pc = "estimated" /\ outcome = "ok"

\* The contract's precondition on the percentiles.
ValidPcts == PctInRange(lower_pct) /\ PctInRange(upper_pct) /\ lower_pct < upper_pct

\* min <= mean <= max for an estimate e, the mean being sum / count.
MeanInEnvelope(e) == /\ e.min100 * e.mean.count <= 100 * e.mean.sum
                     /\ 100 * e.mean.sum <= e.max100 * e.mean.count

\* C3, as stated: for every non-empty signal and valid percentiles the
\* estimate has min <= mean <= max and stdev >= 0, min and max being the
\* lower_pct-th and upper_pct-th percentiles and the mean that of the
\* unclipped signal.
C3_MeanInsidePercentiles ==
    (Estimated /\ ValidPcts) =>
        \A k \in SignalNames : MeanInEnvelope(est[k]) /\ est[k].stdev100 >= 0

\* C3, amended: for every non-empty signal and valid percentiles the estimate
\* has min <= max and stdev >= 0; the mean of the unclipped signal need not
\* lie between the two percentiles.
C3_EnvelopeOrdered ==
    (Estimated /\ ValidPcts) =>
        \A k \in SignalNames : est[k].min100 <= est[k].max100 /\ est[k].stdev100 >= 0

\* An estimate of a signal with an outlier: the mean lies above the envelope.
C3_Witness ==
    /\ Estimated /\ ValidPcts
    /\ est.epipolar_error.min100 < est.epipolar_error.max100
    /\ ~MeanInEnvelope(est.epipolar_error)
    /\ est.epipolar_error.stdev100 > 0

C6_InvalidPctsRejected ==
    (pc = "estimated") =>
        /\ ~ValidPcts => (outcome = "ValueError" /\ est = None)
        /\ ValidPcts => outcome # "ValueError"

\* C7, as stated: for the matches (0,0,1,0), (0,10,1,9), (0,100,1,0) the
\* disparity is [1,1,1] with estimate {1, 1, 1, 0} and the epipolar error is
\* [0,1,100] with mean 33.67 and stdev 44.57, whatever the percentiles.
C7_Stdev4457 ==
    (Estimated /\ matches = Scenario) =>
        /\ disparity = <<1, 1, 1>>
        /\ est.disparity = [min100 |-> 100, max100 |-> 100,
                            mean |-> [sum |-> 3, count |-> 3],
                            mean100 |-> 100, stdev100 |-> 0]
        /\ epipolar_error = <<0, 1, 100>>
        /\ est.epipolar_error.mean100 = 3367
        /\ est.epipolar_error.stdev100 = 4457

\* C7, amended: the same, with stdev 46.91 (the population standard
\* deviation of [0,1,100]); mean and stdev are the same for every pair of
\* percentiles.
C7_Stdev4691 ==
    (Estimated /\ matches = Scenario) =>
        /\ disparity = <<1, 1, 1>>
        /\ est.disparity = [min100 |-> 100, max100 |-> 100,
                            mean |-> [sum |-> 3, count |-> 3],
                            mean100 |-> 100, stdev100 |-> 0]
        /\ epipolar_error = <<0, 1, 100>>
        /\ est.epipolar_error.mean = [sum |-> 101, count |-> 3]
        /\ est.epipolar_error.mean100 = 3367
        /\ est.epipolar_error.stdev100 = 4691

\* The scenario estimated with the 1st and 99th percentiles: the envelope of
\* the epipolar error is [0.02, 98.02].
C7_Witness ==
    /\ Estimated /\ matches = Scenario
    /\ lower_pct = LowerPct /\ upper_pct = UpperPct
    /\ est.epipolar_error.min100 = 2 /\ est.epipolar_error.max100 = 9802

(***************************************************************************)
(* Cell "compute common bounds between raw and filtered matches"           *)
(***************************************************************************)
\* np.percentile(raw, q) where the raw signal may be empty (nan, on the
\* releases that do not raise).
RawPercentile100(raw, q) == IF raw = <<>> THEN NaN ELSE Percentile100(raw, q)

\* Faulty variant of SharedMin: the corrected signal's minimum is left out.
SharedMinRawOnly(corrected, raw, q) == RawPercentile100(raw, q)
\* min(np.min(corrected), np.percentile(raw, q)), times 100. Python's min
\* keeps its first argument when the second is nan.
SharedMin(corrected, raw, q) ==
    IF raw = <<>> THEN 100 * SeqMin(corrected)
    ELSE Min2(100 * SeqMin(corrected), Percentile100(raw, q))

\* Faulty variant of SharedMax: the corrected signal's maximum is left out.
SharedMaxRawOnly(corrected, raw, q) == RawPercentile100(raw, q)
\* max(np.max(corrected), np.percentile(raw, q)), times 100.
SharedMax(corrected, raw, q) ==
    IF raw = <<>> THEN 100 * SeqMax(corrected)
    ELSE Max2(100 * SeqMax(corrected), Percentile100(raw, q))

ComputeBounds ==
    /\ pc = "signals"
    /\ pc' = "bounds"
    /\ \E o \in EmptyOutcomes :
          IF raw_epipolar_error = <<>> /\ o = "IndexError"
          THEN /\ outcome' = "IndexError"
               /\ bounds' = None
          ELSE IF epipolar_error = <<>>
          THEN \* np.min of an empty array raises ValueError
               /\ outcome' = "ValueError"
               /\ bounds' = None
          ELSE
               /\ outcome' = "ok"
               /\ bounds' =
                    [raw_epipolar_error_min |->
                        RawPercentile100(raw_epipolar_error, LowerPct),
                     raw_epipolar_error_max |->
                        RawPercentile100(raw_epipolar_error, UpperPct),
                     epipolar_error_min |->
                        SharedMin(epipolar_error, raw_epipolar_error, LowerPct),
                     epipolar_error_max |->
                        SharedMax(epipolar_error, raw_epipolar_error, UpperPct),
                     raw_disparity_min |-> RawPercentile100(raw_disparity, LowerPct),
                     raw_disparity_max |-> RawPercentile100(raw_disparity, UpperPct),
                     disparity_min |-> SharedMin(disparity, raw_disparity, LowerPct),
                     disparity_max |-> SharedMax(disparity, raw_disparity, UpperPct)]
    /\ UNCHANGED <<matches, raw_matches, epipolar_error, raw_epipolar_error,
                   disparity, raw_disparity, lower_pct, upper_pct, est,
                   bins, grids, nb>>

RangePool == MatchPool \ {<<1, 50, 4, 0>>}

InitRange ==
    /\ pc = "loaded"
    /\ matches \in SeqsOf(RangePool, 0, MaxN)
    /\ raw_matches \in SeqsOf(RangePool, 0, MaxN)
    /\ lower_pct = LowerPct
    /\ upper_pct = UpperPct
    /\ epipolar_error = None /\ raw_epipolar_error = None
    /\ disparity = None /\ raw_disparity = None
    /\ est = None /\ outcome = None
    /\ bounds = None /\ bins = None /\ grids = None /\ nb = None

NextRange == ComputeSignals \/ ComputeBounds

SpecRange == InitRange /\ [][NextRange]_vars

(***************************************************************************)
(* Properties of the shared range (SpecRange)                              *)
(***************************************************************************)
\* The bounds were computed from two non-empty signals.
Bounded == pc = "bounds" /\ outcome = "ok" /\ raw_matches # <<>>

\* The shared range [lo, hi] is at least as wide as the percentile envelopes
\* of the raw signal and of the corrected signal.
Widened(lo, hi, raw, corrected) ==
    /\ hi >= Max2(Percentile100(raw, UpperPct), Percentile100(corrected, UpperPct))
    /\ lo <= Min2(Percentile100(raw, LowerPct), Percentile100(corrected, LowerPct))

\* C4: the combined envelope of a raw and a corrected signal, lower =
\* min(lower percentile of raw, minimum of corrected) and upper = max(upper
\* percentile of raw, maximum of corrected), is never narrower than the
\* percentile envelope of either signal.
C4_Widening ==
    Bounded =>
        /\ bounds.epipolar_error_min =
              Min2(Percentile100(raw_epipolar_error, LowerPct),
                   100 * SeqMin(epipolar_error))
        /\ bounds.epipolar_error_max =
              Max2(Percentile100(raw_epipolar_error, UpperPct),
                   100 * SeqMax(epipolar_error))
        /\ Widened(bounds.epipolar_error_min, bounds.epipolar_error_max,
                   raw_epipolar_error, epipolar_error)
        /\ Widened(bounds.disparity_min, bounds.disparity_max,
                   raw_disparity, disparity)

\* The corrected signal widens the raw envelope on both sides.
C4_Witness ==
    /\ Bounded
    /\ bounds.epipolar_error_min < bounds.raw_epipolar_error_min
    /\ bounds.epipolar_error_max > bounds.raw_epipolar_error_max
    /\ Len(epipolar_error) >= 2 /\ Len(raw_epipolar_error) >= 2

\* Every value of signal a between lo and hi (times 100).
AllInside(a, lo, hi) == \A i \in 1..Len(a) : lo <= 100 * a[i] /\ 100 * a[i] <= hi

\* C10: the shared range has lower <= upper and contains every value of the
\* corrected signal; a raw value is inside it when it lies between the raw
\* signal's own 1st and 99th percentiles.
C10_SharedRangeCoversCorrected ==
    Bounded =>
        /\ bounds.epipolar_error_min <= bounds.epipolar_error_max
        /\ bounds.disparity_min <= bounds.disparity_max
        /\ AllInside(epipolar_error, bounds.epipolar_error_min,
                     bounds.epipolar_error_max)
        /\ AllInside(disparity, bounds.disparity_min, bounds.disparity_max)
        /\ \A i \in 1..Len(raw_epipolar_error) :
              LET v == 100 * raw_epipolar_error[i]
              IN  (bounds.raw_epipolar_error_min <= v /\ v <= bounds.raw_epipolar_error_max)
                    => (bounds.epipolar_error_min <= v /\ v <= bounds.epipolar_error_max)

\* A raw outlier is left outside the shared range while a corrected value
\* lies outside the raw percentiles.
C10_Witness ==
    /\ Bounded
    /\ ~AllInside(raw_epipolar_error, bounds.epipolar_error_min,
                  bounds.epipolar_error_max)
    /\ ~AllInside(epipolar_error, bounds.raw_epipolar_error_min,
                  bounds.raw_epipolar_error_max)

(***************************************************************************)
(* scipy.stats.binned_statistic_2d                                         *)
(***************************************************************************)
\* matches[:, 0] and matches[:, 1]
XLeft(m) == [i \in 1..Len(m) |-> m[i][1]]
YLeft(m) == [i \in 1..Len(m) |-> m[i][2]]

\* The range of one axis, times 2: [min, max] of the sample, widened to
\* [min - 0.5, max + 0.5] when all its values are equal.
Lo2(xs) == IF SeqMin(xs) = SeqMax(xs) THEN 2 * SeqMin(xs) - 1 ELSE 2 * SeqMin(xs)
Hi2(xs) == IF SeqMin(xs) = SeqMax(xs) THEN 2 * SeqMax(xs) + 1 ELSE 2 * SeqMax(xs)

\* Edge k (0..nbin) of np.linspace(min, max, nbin + 1), times 2 * nbin.
EdgeScaled(xs, nbin, k) == Lo2(xs) * nbin + k * (Hi2(xs) - Lo2(xs))

\* Faulty variant of Digitize: np.digitize(..., right=True), edges[i-1] < v <= edges[i].
DigitizeRight(v, xs, nbin) ==
    Cardinality({k \in 0..nbin : EdgeScaled(xs, nbin, k) < 2 * nbin * v})
\* np.digitize(v, edges): the i with edges[i-1] <= v < edges[i], that is the
\* number of edges <= v; 0 and nbin + 1 are the outlier bins.
Digitize(v, xs, nbin) ==
    Cardinality({k \in 0..nbin : EdgeScaled(xs, nbin, k) <= 2 * nbin * v})

\* Faulty variant of BinNumber: values on the rightmost edge are not shifted.
BinNumberNoShift(v, xs, nbin) == Digitize(v, xs, nbin)
\* A value on the rightmost edge is shifted one bin to the left, so that it
\* counts in the last bin and not as an outlier.
BinNumber(v, xs, nbin) ==
    IF 2 * nbin * v = EdgeScaled(xs, nbin, nbin)
    THEN Digitize(v, xs, nbin) - 1
    ELSE Digitize(v, xs, nbin)

\* The linearised bin number of each point in the (nx + 2) x (ny + 2) array
\* that includes the outlier bins (np.ravel_multi_index).
BinNumbers(x, y, b) ==
    [i \in 1..Len(x) |->
        BinNumber(x[i], x, b[1]) * (b[2] + 2) + BinNumber(y[i], y, b[2])]

\* The values of the points of one bin, in the order of the input.
MemberValues(values, numbers, n) ==
    LET F[i \in 0..Len(values)] ==
            IF i = 0 THEN <<>>
            ELSE IF numbers[i] = n THEN Append(F[i - 1], values[i]) ELSE F[i - 1]
    IN  F[Len(values)]

\* Faulty variant of FillValue: every result array starts from zero.
FillValueZero(statistic) == Num(0)
\* What the result array is filled with before the bins are aggregated:
\* nan for "mean", 0 for "count", statistic([]) for a callable, which is nan
\* when the call raises (np.min and np.max of an empty list do).
FillValue(statistic) == IF statistic = "count" THEN Num(0) ELSE NaN

\* The statistic of the non-empty list of values of one bin; a mean is the
\* pair (sum, count).
Aggregate(statistic, vs) ==
    CASE statistic = "mean"  -> Num(<<Sum(vs), Len(vs)>>)
      [] statistic = "count" -> Num(Len(vs))
      [] statistic = "min"   -> Num(SeqMin(vs))
      [] statistic = "max"   -> Num(SeqMax(vs))

\* binned_statistic_2d(..., values, bins=b, statistic=...)[0] for points with
\* the bin numbers given: the result without the outlier bins
\* (result[1:-1, 1:-1]).
BinnedStatistic2d(numbers, values, b, statistic) ==
    [c \in (1..b[1]) \X (1..b[2]) |->
        LET vs == MemberValues(values, numbers, c[1] * (b[2] + 2) + c[2])
        IN  IF vs = <<>> THEN FillValue(statistic) ELSE Aggregate(statistic, vs)]

\* (edges[1:] + edges[:-1]) / 2, times 4 * nbin.
CellCenters(xs, nbin) ==
    [k \in 1..nbin |-> EdgeScaled(xs, nbin, k) + EdgeScaled(xs, nbin, k - 1)]

\* stats_dispmax_2d - stats_dispmin_2d; nan - nan is nan.
Width(gmax, gmin) ==
    [c \in DOMAIN gmax |-> IF gmax[c] = NaN \/ gmin[c] = NaN THEN NaN
                           ELSE Num(gmax[c].v - gmin[c].v)]

\* Cell "We compute the mean epipolar error in each bin".
BinEpipolarError ==
    /\ pc = "signals"
    /\ IF matches = <<>>
       THEN \* the minimum of an empty sample: ValueError
            /\ pc' = "failed"
            /\ outcome' = "ValueError"
            /\ UNCHANGED <<grids, nb>>
       ELSE /\ pc' = "binned_epi"
            /\ outcome' = "ok"
            /\ nb' = BinNumbers(XLeft(matches), YLeft(matches), bins)
            /\ grids' = [grids EXCEPT
                 !.stats_epi_2d = BinnedStatistic2d(nb', epipolar_error, bins, "mean"),
                 !.count_epi_2d = BinnedStatistic2d(nb', epipolar_error, bins, "count"),
                 !.x1d = CellCenters(XLeft(matches), bins[1]),
                 !.y1d = CellCenters(YLeft(matches), bins[2])]
    /\ UNCHANGED <<matches, raw_matches, epipolar_error, raw_epipolar_error,
                   disparity, raw_disparity, lower_pct, upper_pct, est,
                   bounds, bins>>

\* Cell "we compute disparity minimum, maximum and range width for each bin".
BinDisparity ==
    /\ pc = "binned_epi"
    /\ pc' = "binned_disp"
    /\ nb' = BinNumbers(XLeft(matches), YLeft(matches), bins)
    /\ LET gmin == BinnedStatistic2d(nb', disparity, bins, "min")
           gmax == BinnedStatistic2d(nb', disparity, bins, "max")
       IN  grids' = [grids EXCEPT !.stats_dispmin_2d = gmin,
                                  !.stats_dispmax_2d = gmax,
                                  !.disp_width = Width(gmax, gmin)]
    /\ UNCHANGED <<matches, raw_matches, epipolar_error, raw_epipolar_error,
                   disparity, raw_disparity, lower_pct, upper_pct, est, outcome,
                   bounds, bins>>

\* The four corners of the unit square, and a fifth point to the right.
BinPool == << <<0, 0, 1, 0>>, <<1, 0, 3, 1>>, <<0, 1, 0, 0>>, <<1, 1, 1, 3>>,
              <<2, 1, 5, 1>> >>

\* The arrays of lo..hi rows of the pool, up to the order of the rows (the
\* bin of a point and the aggregate of a bin's values do not depend on it):
\* the rows are taken in the order of the pool.
RowsOf(pool, lo, hi) ==
    UNION {{[i \in 1..n |-> pool[f[i]]] :
               f \in {g \in [1..n -> 1..Len(pool)] :
                         \A i \in 1..(n - 1) : g[i] <= g[i + 1]}} :
           n \in lo..hi}

InitBin ==
    /\ pc = "loaded"
    /\ matches \in RowsOf(BinPool, 0, MaxPts)
    /\ raw_matches = <<>>
    /\ bins \in (1..MaxBins) \X (1..MaxBins)
    /\ lower_pct = LowerPct
    /\ upper_pct = UpperPct
    /\ epipolar_error = None /\ raw_epipolar_error = None
    /\ disparity = None /\ raw_disparity = None
    /\ est = None /\ outcome = None /\ bounds = None /\ nb = None
    /\ grids = [stats_epi_2d |-> None, count_epi_2d |-> None, x1d |-> None,
                y1d |-> None, stats_dispmin_2d |-> None,
                stats_dispmax_2d |-> None, disp_width |-> None]

NextBin == ComputeSignals \/ BinEpipolarError \/ BinDisparity

SpecBin == InitBin /\ [][NextBin]_vars

(***************************************************************************)
(* Properties of the binned statistics (SpecBin)                           *)
(***************************************************************************)
Cells == (1..bins[1]) \X (1..bins[2])

\* The column and the row of a linearised bin number.
ColOf(n) == n \div (bins[2] + 2)
RowOf(n) == n % (bins[2] + 2)

\* The points that fall in cell c.
Members(c) == {i \in 1..Len(matches) : ColOf(nb[i]) = c[1] /\ RowOf(nb[i]) = c[2]}

\* The sum of the cells of a grid of numbers.
GridTotal(g) ==
    Sum([i \in 1..bins[1] |-> Sum([j \in 1..bins[2] |-> g[<<i, j>>].v])])

BinnedEpi == pc \in {"binned_epi", "binned_disp"}

\* C1: with statistic=count the cells of the grid sum to the number of
\* points, for every bin count >= 1, also when all x or all y are equal.
C1_CountSumsToN ==
    BinnedEpi =>
        /\ GridTotal(grids.count_epi_2d) = Len(matches)
        /\ \A i \in 1..Len(matches) : \E c \in Cells : Members(c) \cap {i} # {}

\* Several points with all x equal, binned into more than one column.
C1_Witness ==
    /\ BinnedEpi
    /\ Len(matches) >= 3
    /\ SeqMin(XLeft(matches)) = SeqMax(XLeft(matches))
    /\ SeqMin(YLeft(matches)) < SeqMax(YLeft(matches))
    /\ bins[1] >= 2
    /\ GridTotal(grids.count_epi_2d) = Len(matches)

\* The matches are the four corners of the unit square, one point each.
UnitSquare ==
    /\ Len(matches) = 4
    /\ {<<matches[i][1], matches[i][2]>> : i \in 1..4} = (0..1) \X (0..1)

\* Point i is in the bin to the right of every interior edge it lies on, and
\* in exactly one cell.
InteriorEdgesHalfOpen(i) ==
    LET x == XLeft(matches)
        y == YLeft(matches)
    IN  /\ \A k \in 1..(bins[1] - 1) :
              2 * bins[1] * x[i] = EdgeScaled(x, bins[1], k) => ColOf(nb[i]) = k + 1
        /\ \A k \in 1..(bins[2] - 1) :
              2 * bins[2] * y[i] = EdgeScaled(y, bins[2], k) => RowOf(nb[i]) = k + 1
        /\ Cardinality({c \in Cells : i \in Members(c)}) = 1

UnitSquareOnePerCell ==
    (UnitSquare /\ bins = <<2, 2>>) => \A c \in Cells : grids.count_epi_2d[c] = Num(1)

\* C2, as stated: a point at the maximum of x is in the last column and a
\* point at the maximum of y in the last row; a point on an interior edge is
\* in exactly one bin; the four corners of the unit square binned 2 x 2 give
\* a count of one in each cell.
C2_MaxEdgeInLastBin ==
    BinnedEpi =>
        /\ \A i \in 1..Len(matches) :
              /\ matches[i][1] = SeqMax(XLeft(matches)) => ColOf(nb[i]) = bins[1]
              /\ matches[i][2] = SeqMax(YLeft(matches)) => RowOf(nb[i]) = bins[2]
              /\ InteriorEdgesHalfOpen(i)
        /\ UnitSquareOnePerCell

\* C2, amended: the same where the values of the axis are not all equal;
\* where all x (or all y) are equal the range of the axis is widened by 0.5
\* on each side and every point is in column (or row) floor(n / 2) + 1 of n,
\* the last one only for n <= 2.
C2_MaxEdgeInLastBinUnlessFlat ==
    BinnedEpi =>
        LET x == XLeft(matches)
            y == YLeft(matches)
        IN  /\ \A i \in 1..Len(matches) :
                 /\ (x[i] = SeqMax(x) /\ SeqMin(x) < SeqMax(x)) => ColOf(nb[i]) = bins[1]
                 /\ (y[i] = SeqMax(y) /\ SeqMin(y) < SeqMax(y)) => RowOf(nb[i]) = bins[2]
                 /\ SeqMin(x) = SeqMax(x) => ColOf(nb[i]) = (bins[1] \div 2) + 1
                 /\ SeqMin(y) = SeqMax(y) => RowOf(nb[i]) = (bins[2] \div 2) + 1
                 /\ InteriorEdgesHalfOpen(i)
            /\ UnitSquareOnePerCell

\* The unit square binned 2 x 2.
C2_Witness ==
    /\ BinnedEpi /\ UnitSquare /\ bins = <<2, 2>>
    /\ \A c \in Cells : Cardinality(Members(c)) = 1
    /\ \E i \in 1..Len(matches) :
          matches[i][1] = SeqMax(XLeft(matches)) /\ ColOf(nb[i]) = bins[1]

StatGrids == {"stats_epi_2d", "count_epi_2d", "stats_dispmin_2d", "stats_dispmax_2d"}

\* C9, as stated: in each of the mean, count, min and max grids a cell
\* without points reports the "no data" sentinel and a cell with points never
\* does.
C9_SentinelInEveryGrid ==
    (pc = "binned_disp") =>
        \A g \in StatGrids : \A c \in Cells :
            (Members(c) = {}) <=> (grids[g][c] = NaN)

\* C9, amended: in the mean, min and max grids a cell without points reports
\* the sentinel and a cell with points never does; in the count grid every
\* cell reports its number of points, which is 0 for a cell without points.
C9_SentinelExceptCount ==
    (pc = "binned_disp") =>
        \A c \in Cells :
            /\ \A g \in StatGrids \ {"count_epi_2d"} :
                  (Members(c) = {}) <=> (grids[g][c] = NaN)
            /\ grids.count_epi_2d[c] = Num(Cardinality(Members(c)))

\* A grid with a cell without points and a cell whose mean is the number zero.
C9_Witness ==
    /\ pc = "binned_disp"
    /\ \E c \in Cells : Members(c) = {} /\ grids.stats_epi_2d[c] = NaN
                        /\ grids.stats_dispmin_2d[c] = NaN
    /\ \E c \in Cells : Members(c) # {} /\ grids.stats_epi_2d[c].v[1] = 0

(***************************************************************************)
(* Summation order: the estimate in float64                                *)
(*                                                                         *)
(* A float64 value is written <<k, r>> for k * 2^53 + r with k >= 0 and a  *)
(* small r >= 0. Below 2^53 every integer is a float64; from 2^53 on the   *)
(* spacing of the float64 values is 2, from 2^54 on it is 4, and so on.    *)
(***************************************************************************)
Big == <<1, 0>>

\* The values a signal is made of: 0, 1, 2 and 2^53.
FloatPool == {<<0, 0>>, <<0, 1>>, <<0, 2>>, Big}

\* The spacing of the float64 values in the binade of k * 2^53 + r.
RECURSIVE Ulp(_)
Ulp(k) == IF k = 0 THEN 1 ELSE 2 * Ulp(k \div 2)

\* Round to nearest, ties to even: the float64 value of the real k * 2^53 + r.
RoundNearestEven(k, r) ==
    LET u   == Ulp(k)
        q   == r \div u
        rem == r % u
    IN  IF 2 * rem < u \/ (2 * rem = u /\ q % 2 = 0)
        THEN <<k, q * u>>
        ELSE <<k, (q + 1) * u>>

\* a + b in float64.
FlAdd(a, b) == RoundNearestEven(a[1] + b[1], a[2] + b[2])

\* np.add.reduce over fewer than 8 values: they are added one by one, in the
\* order of the array.
RECURSIVE FlSum(_)
FlSum(a) == IF Len(a) = 1 THEN a[1]
            ELSE FlAdd(FlSum(SubSeq(a, 1, Len(a) - 1)), a[Len(a)])

\* The sum as a real number.
RECURSIVE ExactSum(_)
ExactSum(a) == IF a = <<>> THEN <<0, 0>>
               ELSE LET t == ExactSum(Tail(a))
                    IN  <<a[1][1] + t[1], a[1][2] + t[2]>>

FlLess(a, b) == a[1] < b[1] \/ (a[1] = b[1] /\ a[2] < b[2])

\* Faulty variant of FlSorted: the order statistics are read from the unsorted signal.
FlSortedUnsorted(a) == a
\* The ordering of the values by np.percentile.
FlSorted(a) == SortSeq(a, FlLess)

\* np.percentile(a, q): the interpolation of the two order statistics
\* around the virtual index q/100 * (n-1), given by its three arguments (the
\* result is a function of them).
FlPercentile(a, q) ==
    LET sorted == FlSorted(a)
        n      == Len(a)
        lo     == (q * (n - 1)) \div 100
        hi     == IF lo + 1 > n - 1 THEN n - 1 ELSE lo + 1
    IN  [below |-> sorted[lo + 1], above |-> sorted[hi + 1],
         frac100 |-> (q * (n - 1)) % 100]

\* a.mean(): the float64 sum divided by the count, given by the two. With at
\* most one value of 2^53 in the signal the sum is below 2^53 + 2^52, where
\* two different float64 sums have different quotients by the count.
FlMean(a) == [sum |-> FlSum(a), count |-> Len(a)]

FlRangeEstimate(a, lo, hi) ==
    [min |-> FlPercentile(a, lo), max |-> FlPercentile(a, hi), mean |-> FlMean(a)]

EstimateFloat ==
    /\ pc = "signals"
    /\ pc' = "estimated"
    /\ outcome' = "ok"
    /\ est' = FlRangeEstimate(epipolar_error, lower_pct, upper_pct)
    /\ UNCHANGED <<matches, raw_matches, epipolar_error, raw_epipolar_error,
                   disparity, raw_disparity, lower_pct, upper_pct,
                   bounds, bins, grids, nb>>

\* a with its values in the order p.
Permuted(a, p) == [i \in 1..Len(a) |-> a[p[i]]]

\* The same values in another order, estimated again.
Shuffle ==
    /\ pc \in {"estimated", "shuffled"}
    /\ pc' = "shuffled"
    /\ \E p \in Permutations(1..Len(epipolar_error)) :
          /\ Permuted(epipolar_error, p) # epipolar_error
          /\ epipolar_error' = Permuted(epipolar_error, p)
    /\ est' = FlRangeEstimate(epipolar_error', lower_pct, upper_pct)
    /\ UNCHANGED <<matches, raw_matches, raw_epipolar_error,
                   disparity, raw_disparity, lower_pct, upper_pct, outcome,
                   bounds, bins, grids, nb>>

\* Non-empty signals with at most one value of 2^53, and valid percentiles.
InitShuffle ==
    /\ pc = "signals"
    /\ epipolar_error \in
          {a \in SeqsOf(FloatPool, 1, MaxN) :
              Cardinality({i \in 1..Len(a) : a[i] = Big}) <= 1}
    /\ lower_pct \in {q \in Pcts : PctInRange(q)}
    /\ upper_pct \in {q \in Pcts : PctInRange(q) /\ lower_pct < q}
    /\ matches = None /\ raw_matches = None
    /\ raw_epipolar_error = None /\ disparity = None /\ raw_disparity = None
    /\ est = None /\ outcome = None
    /\ bounds = None /\ bins = None /\ grids = None /\ nb = None

NextShuffle == EstimateFloat \/ Shuffle

SpecShuffle == InitShuffle /\ [][NextShuffle]_vars

(***************************************************************************)
(* Properties of the estimate under permutation (SpecShuffle)              *)
(***************************************************************************)
\* C8, as stated: the estimate of a permutation of a signal has the same
\* min, max, mean and stdev as the estimate of the signal.
C8_SameEstimate == [][Shuffle => est' = est]_vars

\* C8, amended: the estimate of a permutation of a signal has the same min
\* and max, and its values have the same sum, so mean and stdev are the same
\* as real numbers; the float64 mean is accumulated in the order of the
\* input and may differ by rounding.
C8_SamePercentiles ==
    [][Shuffle => /\ est'.min = est.min
                  /\ est'.max = est.max
                  /\ est'.mean.count = est.mean.count
                  /\ ExactSum(epipolar_error') = ExactSum(epipolar_error)]_vars

\* A shuffled signal with one large value, whose float64 sum has lost the
\* small ones.
C8_Witness ==
    /\ pc = "shuffled"
    /\ Len(epipolar_error) = 3
    /\ epipolar_error[1] = Big
    /\ est.mean.sum # ExactSum(epipolar_error)
    /\ est.min.below # est.max.above

====
